---- MODULE Spec2Model ----
(***************************************************************************)
(* Quota monitor of claude-quota-cli: the threshold classifier, the        *)
(* webhook fan-out, the alert state file, the daily report cursor and the  *)
(* monitor command's poll loop (runOnce under setInterval).                *)
(***************************************************************************)
EXTENDS Integers, Sequences, FiniteSets, TLC

\* ---------------------------------------------------------------- bounds
\* Largest utilization handed to the classifier in SpecClassify.
MaxUtil == 130
\* Largest destination list handed to postToWebhooks in SpecFanout.
MaxHooks == 4
\* Number of webhook destinations (uniqueUrls.length) of the monitor.
NumUrls == 2
\* Number of runOnce invocations one monitor process starts in the model.
MaxCycles == 3
\* Number of runOnce invocations that may be in flight at once in the model.
MaxInFlight == 2
\* Last calendar day (KST) the model's clock reaches.
MaxDay == 2
MaxConfigUrls == 2
MaxTiers == 2

\* ------------------------------------------------------------- classifier
\* null, the "no tier" result of getThresholdForPercentage.
Null == -1

THRESHOLDS == <<80, 60, 40, 20>>

RECURSIVE ScanThresholds(_, _)
\* The for-loop over THRESHOLDS: first threshold t with t <= u < t + 20.
ScanThresholds(utilization, i) ==
  IF i > Len(THRESHOLDS) THEN Null
  ELSE IF utilization >= THRESHOLDS[i] /\ utilization < THRESHOLDS[i] + 20
       THEN THRESHOLDS[i]
       ELSE ScanThresholds(utilization, i + 1)

\* Mutant: the classifier without the unbounded top tier.
getThresholdForPercentage_NoTop(utilization) ==
  ScanThresholds(utilization, 1)

\* Mutant: a classifier with a tier for the utilizations below 20.
getThresholdForPercentage_Floor(utilization) ==
  LET hit == ScanThresholds(utilization, 1)
  IN  IF hit # Null THEN hit
      ELSE IF utilization >= 80 THEN 80
      ELSE 20

getThresholdForPercentage(utilization) ==
  LET hit == ScanThresholds(utilization, 1)
  IN  IF hit # Null THEN hit
      ELSE IF utilization >= 80 THEN 80
      ELSE Null

\* ---------------------------------------------------------------- fan-out
\* What one destination's POST does: 2xx, a non-2xx response, a network error.
Outcomes == {"ok", "http_error", "network_error"}

\* The per-destination promise: fetch rejects on a network error, the callback
\* throws on !response.ok.
Settled(outcome) == IF outcome = "ok" THEN "fulfilled" ELSE "rejected"

\* results.filter(r => r.status === "rejected")
Failures(outcomes) ==
  {i \in 1..Len(outcomes) : Settled(outcomes[i]) = "rejected"}

\* Mutant: a fan-out that swallows every failure.
postToWebhooks_Swallows(outcomes) == "resolved"

\* Mutant: a fan-out that rejects as soon as any destination fails.
postToWebhooks_AnyFails(outcomes) ==
  IF Cardinality(Failures(outcomes)) > 0 THEN "rejected" ELSE "resolved"

\* postToWebhooks, by the outcome of each destination in webhookUrls order.
postToWebhooks(outcomes) ==
  IF Cardinality(Failures(outcomes)) = Len(outcomes) THEN "rejected"
  ELSE "resolved"

\* ------------------------------------------------------------ alert state
\* The monitored windows in the order runOnce visits them, with their state keys:
\* claude:${quota.period} for snapshot.fiveHour and snapshot.sevenDay, then
\* openai:primary and openai:secondary.
StateKeys == <<"claude:5-hour", "claude:7-day", "openai:primary", "openai:secondary">>

\* The state key of the i-th window (1 or 2) of a provider.
StateKey(provider, i) ==
  IF provider = "claude" THEN StateKeys[i] ELSE StateKeys[2 + i]

\* {} : an AlertState with no entry.
EmptyState == [k \in {} |-> <<>>]

\* state[stateKey] || []
Alerted(state, key) == IF key \in DOMAIN state THEN state[key] ELSE <<>>

\* Mutant: an assignment that leaves the state with the one entry.
SetEntry_Wipe(state, key, tiers) == [k \in {key} |-> tiers]

\* state[stateKey] = tiers
SetEntry(state, key, tiers) ==
  [k \in (DOMAIN state) \cup {key} |-> IF k = key THEN tiers ELSE state[k]]

\* Mutant: every tier up to the alerted one is recorded.
Record_Ladder(tiers, threshold) ==
  tiers \o SelectSeq(<<20, 40, 60, 80>>, LAMBDA t : t <= threshold)

\* [...alertedThresholds, threshold]
Record_Twice(tiers, threshold) == Append(Append(tiers, threshold), threshold)

Record(tiers, threshold) == Append(tiers, threshold)

\* Mutant: alertedThresholds.includes that never finds the tier.
Includes_Never(tiers, threshold) == FALSE

\* Mutant: a tier counts as alerted once any tier at or above it is stored.
Includes_Rising(tiers, threshold) ==
  \E i \in 1..Len(tiers) : tiers[i] >= threshold

\* alertedThresholds.includes(threshold)
Includes(tiers, threshold) == \E i \in 1..Len(tiers) : tiers[i] = threshold

\* Mutant: a text that leaves out the entries with no tier.
Stringify_NoEmpty(state) ==
  {<<k, state[k]>> : k \in {x \in DOMAIN state : state[x] # <<>>}}

\* The JSON value null, which is no mapping: it is kept apart from every
\* AlertState by its one key, and reading a property of it throws.
JsNull == [k \in {"null"} |-> <<>>]

\* The text `null`.
NullText == {<<"null">>}

IsNullText(text) == \E m \in text : Len(m) = 1 /\ m[1] = "null"

\* JSON.stringify(state): the text lists one "key": [tiers] member per entry;
\* null is written as `null`.
Stringify(state) ==
  IF state = JsNull THEN NullText ELSE {<<k, state[k]>> : k \in DOMAIN state}

\* JSON.parse of such a text: the object with one entry per member, or null.
Parse(text) ==
  IF IsNullText(text) THEN JsNull
  ELSE [k \in {m[1] : m \in text} |-> (CHOOSE m \in text : m[1] = k)[2]]

\* The alert-state file before its first write: absent.
NoFile == [exists |-> FALSE, text |-> {}]

\* JSON.parse accepts a text: every piece of it is a "key": [tiers] member. A
\* piece that is not (a one-element tuple here) makes JSON.parse throw.
Parsable(text) == \A m \in text : Len(m) = 2 \/ (Len(m) = 1 /\ m[1] = "null")

\* A file that parses, but to null and not to a mapping.
NullFile == [exists |-> TRUE, text |-> NullText]

\* Files whose text JSON.parse rejects: garbage, and an object cut short after
\* its first member.
CorruptFiles ==
  {[exists |-> TRUE, text |-> {<<"}{">>}],
   [exists |-> TRUE, text |-> {<<"claude:5-hour", <<80>>>>, <<"}{">>}]}

\* Mutant: a load that keeps the members it could read of a broken text.
loadAlertState_Lenient(f) ==
  IF ~f.exists THEN EmptyState ELSE Parse({m \in f.text : Len(m) = 2})

\* loadAlertState: {} when the file is absent, {} from the catch when JSON.parse
\* throws, else the parsed text.
loadAlertState(f) ==
  IF ~f.exists THEN EmptyState
  ELSE IF ~Parsable(f.text) THEN EmptyState
  ELSE Parse(f.text)

\* saveAlertState: the file written with the state's text.
saveAlertState(state) == [exists |-> TRUE, text |-> Stringify(state)]

\* -------------------------------------------------------------- variables
VARIABLES
  cfg,                  \* the monitor's options: once, hasClaude, hasOpenAI, urls
  main,                 \* where the monitor action is
  timer,                \* the setInterval timer: "none" or "armed"
  cyc,                  \* the runOnce invocations, by slot
  file,                 \* the alert-state file
  lastDailyReportDate,  \* the daily report cursor (0 is "")
  now,                  \* the last reading of the wall clock in KST: [day, hour]
  usage,                \* SpecSteady: what the providers report all along
  watch,                \* which history this run records
  started,              \* history: number of runOnce invocations started
  accepted,             \* history: (key, tier) alerts some webhook has accepted
  delivered,            \* history: the same, less the keys reset since
  dropped,              \* history: keys seen below 20 since their last accepted alert
  failed,               \* history: (key, tier) alerts whose last send failed everywhere
  reports,              \* history: per day, report sends started, due checks, outcome
  lastGood,             \* history: the last runOnce ran alone, delivered all, saved
  arg,                  \* the input of the pure function under check
  res                   \* its result

vars == <<cfg, main, timer, cyc, file, lastDailyReportDate, now, usage, watch,
          started, accepted, delivered, dropped, failed, reports, lastGood, arg, res>>

monitorVars == <<cfg, main, timer, cyc, file, lastDailyReportDate, now, usage,
                 watch, started, accepted, delivered, dropped, failed, reports, lastGood>>

\* ------------------------------------------------------------ environment
\* The utilizations a provider reports in the model: below every tier, and in
\* the top tier.
Utils == {15, 85}

\* What fetchQuota may resolve with: each of the two windows null or a quota.
Snapshots == [1..2 -> Utils \cup {Null}]

\* The hours of a day the model's clock takes.
Hours == {9, 10}

\* --daily-report-hour, parsed
dailyReportHour == 9

\* How a build renders the hour after midnight with hour12: false in en-US: "0"
\* under hour cycle h23, "24" under h24.
Midnights == {0, 24}

\* parseInt(now.toLocaleString("en-US", {hour: "numeric", hour12: false, ...}))
\* for local hour h, on a build that renders midnight's hour as `midnight`.
hourNumeric(h, midnight) == IF h = 0 THEN midnight ELSE h

\* kstHour in the monitor, whose clock never reads an hour where builds differ.
kstHour(t) == hourNumeric(t.hour, 24)

\* now.toLocaleDateString("ko-KR", ...): one string per calendar day
kstDate(t) == t.day

Clock == [day : 1..MaxDay, hour : Hours]

\* The clock does not run backwards.
Later(t, u) == u.day > t.day \/ (u.day = t.day /\ u.hour > t.hour)

Cycles == 1..MaxInFlight

\* A runOnce invocation that is not running.
Idle == [pc |-> "idle", provider |-> "none", state |-> EmptyState,
         snap |-> <<Null, Null>>, idx |-> 0, alertsSent |-> 0, kstDate |-> 0,
         clean |-> FALSE, basis |-> FALSE, owed |-> {}]

InFlight == {c \in Cycles : cyc[c].pc # "idle"}

NoReports == [d \in 1..MaxDay |-> [starts |-> 0, checks |-> 0, outcome |-> "none"]]

\* ------------------------------------------------------------- runOnce
\* if (quota.utilization < 20) state[stateKey] = []
Hysteresis(state, key, utilization) ==
  IF utilization < 20 THEN SetEntry(state, key, <<>>) ELSE state

RECURSIVE Scan(_, _, _, _, _)
\* The window loop of one provider from window i on, up to the next await:
\* stop is the window whose alert is to be sent, 3 when the loop has ended, or
\* 0 when state[stateKey] threw because the state is null; cleared are the keys
\* the loop has reset.
Scan(provider, state, snap, i, cleared) ==
  IF i > 2 THEN [state |-> state, stop |-> 3, cleared |-> cleared]
  ELSE IF snap[i] = Null THEN Scan(provider, state, snap, i + 1, cleared)
  ELSE LET threshold == getThresholdForPercentage(snap[i])
           key == StateKey(provider, i)
       IN  IF threshold = Null THEN Scan(provider, state, snap, i + 1, cleared)
           ELSE IF state = JsNull
                THEN [state |-> state, stop |-> 0, cleared |-> cleared]
           ELSE IF ~Includes(Alerted(state, key), threshold)
                THEN [state |-> state, stop |-> i, cleared |-> cleared]
                ELSE Scan(provider, Hysteresis(state, key, snap[i]), snap, i + 1,
                          IF snap[i] < 20 THEN cleared \cup {key} ELSE cleared)

\* Mutant: the due check without the cursor.
isReportDue_AnyDate(configured, hour, date, cursor) == hour = configured

\* kstHour === dailyReportHour && lastDailyReportDate !== kstDate
isReportDue(configured, hour, date, cursor) ==
  hour = configured /\ cursor # date

\* Mutant: the cursor is left alone when the send starts.
cursorOnSend_Unset(date, cursor) == cursor

\* lastDailyReportDate = kstDate, before the send is awaited
cursorOnSend(date, cursor) == date

\* What a step of runOnce leaves behind: its own record r (Idle once it has
\* returned), the file, the cursor, the clock reading, and for the history
\* whether it saved, the day of a report send it started, the day of a check in
\* the report hour, the keys it reset.
Effect(r, f, cursor, t, saved, sends, checked, cleared, good) ==
  [r |-> r, file |-> f, cursor |-> cursor, now |-> t, saved |-> saved,
   sends |-> sends, checked |-> checked, cleared |-> cleared, good |-> good]

\* runOnce suspends at an await as r, or (r = Idle) returns from its catch.
NoEffect_Saves(r, cleared) ==
  Effect(r, saveAlertState(r.state), lastDailyReportDate, now, FALSE, 0, 0,
         cleared, FALSE)

NoEffect(r, cleared) ==
  Effect(r, file, lastDailyReportDate, now, FALSE, 0, 0, cleared, FALSE)

\* saveAlertState(state); await checkDailyReport(combined, timestamp), up to the
\* await in it; t is what `new Date()` reads there.
SaveAndReport(r, t, cleared) ==
  LET hour == kstHour(t)
      date == kstDate(t)
      due == isReportDue(dailyReportHour, hour, date, lastDailyReportDate)
  IN  Effect(IF due
             THEN [Idle EXCEPT !.pc = "report", !.alertsSent = r.alertsSent,
                               !.kstDate = date, !.clean = r.clean,
                               !.basis = r.basis]
             ELSE Idle,
             saveAlertState(r.state),
             IF due THEN cursorOnSend(date, lastDailyReportDate)
             ELSE lastDailyReportDate,
             t, TRUE,
             IF due THEN date ELSE 0,
             IF hour = dailyReportHour THEN date ELSE 0,
             cleared, r.clean)

\* The body of runOnce from window i of a provider's loop to the next await.
Proceed(r, i, t) ==
  LET s == Scan(r.provider, r.state, r.snap, i, {})
      q == [r EXCEPT !.state = s.state]
  IN  IF s.stop = 0
      THEN NoEffect(Idle, s.cleared)
      ELSE IF s.stop <= 2
      THEN NoEffect([q EXCEPT !.pc = "alert", !.idx = s.stop], s.cleared)
      ELSE IF r.provider = "claude" /\ cfg.hasOpenAI
      THEN NoEffect([q EXCEPT !.pc = "fetch", !.provider = "openai",
                              !.snap = <<Null, Null>>, !.idx = 0], s.cleared)
      ELSE SaveAndReport(q, t, s.cleared)

\* runOnce from its call to its first await: loadAlertState, then the first
\* provider's fetchQuota.
Begin(t) ==
  LET alone == watch \in {"steady", "once"} /\ InFlight = {}
      r == [Idle EXCEPT !.state = loadAlertState(file), !.clean = alone,
                        !.basis = alone /\ lastGood,
                        !.owed = IF watch = "climb" THEN dropped ELSE {}]
  IN  IF cfg.hasClaude \/ cfg.hasOpenAI
      THEN NoEffect([r EXCEPT !.pc = "fetch",
                       !.provider = IF cfg.hasClaude THEN "claude" ELSE "openai"],
                    {})
      ELSE SaveAndReport(r, t, {})

\* The history a step starts from; a step hands Commit the history as its own
\* sends and observations leave it. A run records the history its `watch` names:
\* "alerts" accepted, delivered and failed; "climb" dropped; "reports" reports;
\* "steady" lastGood and the invocations' clean and basis; "once" what "alerts"
\* and "steady" do.
History == [accepted |-> accepted, delivered |-> delivered, dropped |-> dropped,
            failed |-> failed, reports |-> reports]

\* Mutant: the monitor action goes on to setInterval whatever --once says.
afterFirstRun_Arms(once) == [main |-> "interval", timer |-> "armed"]

\* The monitor action after its first `await runOnce()`: with --once it goes on
\* to dispose the clients, without it it arms the interval timer.
afterFirstRun(once) ==
  IF once THEN [main |-> "dispose", timer |-> "none"]
  ELSE [main |-> "interval", timer |-> "armed"]

\* Invocation c takes a step with effect e. The first invocation is awaited by
\* the monitor action, which then returns (--once) or arms the timer.
Commit(c, e, starting, g) ==
  LET done == e.r.pc = "idle"
      first == main \in {"start", "firstRun"}
      rep1 == IF e.sends = 0 THEN g.reports
              ELSE [g.reports EXCEPT ![e.sends].starts = @ + 1]
      rep2 == IF e.checked = 0 THEN rep1
              ELSE [rep1 EXCEPT ![e.checked].checks = IF @ < 2 THEN @ + 1 ELSE @]
  IN  /\ main # "exited"
      /\ cyc' = [x \in Cycles |->
                   IF x = c THEN e.r
                   ELSE IF starting
                        THEN [cyc[x] EXCEPT !.clean = FALSE, !.basis = FALSE]
                        ELSE cyc[x]]
      /\ file' = e.file
      /\ lastDailyReportDate' = e.cursor
      /\ now' = e.now
      /\ main' = IF ~first THEN main
                 ELSE IF ~done THEN "firstRun"
                 ELSE afterFirstRun(cfg.once).main
      /\ timer' = IF first /\ done THEN afterFirstRun(cfg.once).timer ELSE timer
      /\ lastGood' = (done /\ e.saved /\ e.good)
      /\ started' = IF starting THEN started + 1 ELSE started
      /\ IF watch \in {"alerts", "once"}
         THEN /\ accepted' = g.accepted
              /\ delivered' = {d \in g.delivered : d[1] \notin e.cleared}
              /\ failed' = g.failed
         ELSE UNCHANGED <<accepted, delivered, failed>>
      /\ dropped' = IF watch = "climb" THEN g.dropped ELSE dropped
      /\ reports' = IF watch = "reports" THEN rep2 ELSE reports
      /\ UNCHANGED <<cfg, usage, watch, arg, res>>

\* The clock readings open to a step.
Readings == {t \in Clock : t = now \/ Later(now, t)}

\* The same, for a step that reads the clock only if it gets to the report check.
ReadingsIf(reads) == IF reads THEN Readings ELSE {now}

\* ---------------------------------------------------------------- actions
\* The monitor action reaches its first `await runOnce()`.
MonitorStart ==
  /\ main = "start"
  /\ \E t \in ReadingsIf(Begin(now).saved) : Commit(1, Begin(t), TRUE, History)

\* The interval timer fires and calls runOnce, whatever else is in flight.
TimerFires(c) ==
  /\ main = "interval" /\ timer = "armed"
  /\ started < MaxCycles
  /\ cyc[c].pc = "idle"
  /\ \A x \in Cycles : x < c => cyc[x].pc # "idle"
  /\ \E t \in ReadingsIf(Begin(now).saved) : Commit(c, Begin(t), TRUE, History)

\* A provider's fetchQuota resolves with snapshot sn of its two windows.
FetchResolves(c, sn) ==
  /\ cyc[c].pc = "fetch"
  /\ LET r == [cyc[c] EXCEPT !.snap = sn]
         low == {StateKey(r.provider, i) : i \in {j \in 1..2 : sn[j] # Null /\ sn[j] < 20}}
     IN  \E t \in ReadingsIf(Proceed(r, 1, now).saved) :
           Commit(c, Proceed(r, 1, t), FALSE,
                  [History EXCEPT !.dropped = @ \cup low])

\* With --once: the awaited dispose of each client has resolved (the Claude
\* client closes its browser, the OpenAI client has nothing to close), and the
\* monitor action returns.
Dispose ==
  /\ main = "dispose"
  /\ main' = "returned"
  /\ UNCHANGED <<cfg, timer, cyc, file, lastDailyReportDate, now, usage, watch,
                 started, accepted, delivered, dropped, failed, reports,
                 lastGood, arg, res>>

\* Mutant: a fetchQuota error that nothing catches ends the process.
FetchRejects_Fatal(c) ==
  /\ cyc[c].pc = "fetch"
  /\ main' = "crashed"
  /\ timer' = "none"
  /\ cyc' = [cyc EXCEPT ![c] = Idle]
  /\ UNCHANGED <<cfg, file, lastDailyReportDate, now, usage, watch, started,
                 accepted, delivered, dropped, failed, reports, lastGood, arg, res>>

\* A provider's fetchQuota throws: runOnce's catch logs the error.
FetchRejects(c) ==
  /\ cyc[c].pc = "fetch"
  /\ Commit(c, NoEffect(Idle, {}), FALSE, History)

\* The awaited sendDiscordAlert / sendOpenAIDiscordAlert settles, by what each
\* destination did; a rejection goes to runOnce's catch.
AlertSettles(c, outcomes) ==
  /\ cyc[c].pc = "alert"
  /\ LET r == cyc[c]
         key == StateKey(r.provider, r.idx)
         threshold == getThresholdForPercentage(r.snap[r.idx])
         got == \E i \in 1..Len(outcomes) : outcomes[i] = "ok"
         g == IF got
              THEN [History EXCEPT !.accepted = @ \cup {<<key, threshold>>},
                                   !.delivered = @ \cup {<<key, threshold>>},
                                   !.dropped = @ \ {key},
                                   !.failed = @ \ {<<key, threshold>>}]
              ELSE [History EXCEPT !.failed = @ \cup {<<key, threshold>>}]
         st == SetEntry(r.state, key, Record(Alerted(r.state, key), threshold))
         q == [r EXCEPT !.state = Hysteresis(st, key, r.snap[r.idx]),
                        !.alertsSent = @ + 1,
                        !.owed = IF got THEN @ \ {key} ELSE @]
     IN  IF postToWebhooks(outcomes) = "rejected"
         THEN Commit(c, NoEffect(Idle, {}), FALSE, g)
         ELSE \E t \in ReadingsIf(Proceed(q, r.idx + 1, now).saved) :
                LET e == Proceed(q, r.idx + 1, t)
                IN  Commit(c, [e EXCEPT !.cleared =
                                 IF r.snap[r.idx] < 20 THEN @ \cup {key} ELSE @],
                           FALSE, g)

\* The awaited sendDailyReport settles; a rejection goes to runOnce's catch.
ReportSettles(c, outcomes) ==
  /\ cyc[c].pc = "report"
  /\ LET r == cyc[c]
         got == \E i \in 1..Len(outcomes) : outcomes[i] = "ok"
         e == Effect(Idle, file, lastDailyReportDate, now, TRUE, 0, 0, {}, r.clean)
     IN  /\ postToWebhooks(outcomes) \in {"resolved", "rejected"}
         /\ Commit(c, e, FALSE,
                   [History EXCEPT !.reports[r.kstDate].outcome =
                      IF got THEN "sent" ELSE "failed"])

\* --------------------------------------------------------- specification
\* The monitor action has loaded its configuration and found a webhook.
InitCycles ==
  /\ cfg \in [once : BOOLEAN, hasClaude : BOOLEAN, hasOpenAI : BOOLEAN,
              urls : {NumUrls}, resetState : {FALSE}]
  /\ main = "start"
  /\ timer = "none"
  /\ cyc = [c \in Cycles |-> Idle]
  /\ lastDailyReportDate = 0
  /\ now \in [day : {1}, hour : Hours]
  /\ started = 0
  /\ delivered = {}
  /\ dropped = {}
  /\ failed = {}
  /\ reports = NoReports
  /\ lastGood = FALSE
  /\ res = <<>>

InitMonitor ==
  /\ InitCycles
  /\ arg = 0

Init ==
  /\ InitMonitor
  /\ file = NoFile
  /\ accepted = {}
  /\ usage = <<Null, Null, Null, Null>>
  /\ watch = "alerts"

Next ==
  \/ MonitorStart
  \/ \E c \in Cycles : TimerFires(c)
  \/ \E c \in Cycles : \E sn \in Snapshots : FetchResolves(c, sn)
  \/ \E c \in Cycles : FetchRejects(c)
  \/ \E c \in Cycles : \E o \in [1..cfg.urls -> Outcomes] : AlertSettles(c, o)
  \/ \E c \in Cycles : \E o \in [1..cfg.urls -> Outcomes] : ReportSettles(c, o)
  \/ Dispose

Spec == Init /\ [][Next]_vars

\* A monitor of one provider, recording which keys dropped below the lowest
\* tier.
InitClimb ==
  /\ InitMonitor
  /\ cfg.hasClaude # cfg.hasOpenAI
  /\ file = NoFile
  /\ accepted = {}
  /\ usage = <<Null, Null, Null, Null>>
  /\ watch = "climb"

SpecClimb == InitClimb /\ [][Next]_vars

\* The same monitor, recording the daily report sends.
InitReports ==
  /\ InitMonitor
  /\ file = NoFile
  /\ accepted = {}
  /\ usage = <<Null, Null, Null, Null>>
  /\ watch = "reports"

SpecReports == InitReports /\ [][Next]_vars

\* The windows of the providers the monitor has a client for.
Enabled ==
  (IF cfg.hasClaude THEN {1, 2} ELSE {}) \cup (IF cfg.hasOpenAI THEN {3, 4} ELSE {})

\* The alert-state files earlier runs of the monitor may have left: each key
\* of an enabled provider without an entry or with the top tier alerted.
PriorFiles ==
  {NoFile} \cup
  {saveAlertState([k \in {StateKeys[w] : w \in ws} |-> <<80>>]) :
     ws \in SUBSET Enabled}

\* An interval monitor whose providers report the same usage at every fetch,
\* started on whatever file earlier runs left.
InitSteady ==
  /\ InitMonitor
  /\ ~cfg.once
  /\ file \in PriorFiles
  /\ accepted = {}
  /\ usage \in {u \in [1..4 -> Utils \cup {Null}] :
                  \A w \in 1..4 : w \notin Enabled => u[w] = Null}
  /\ watch = "steady"

\* A provider's fetchQuota resolves with the steady usage.
FetchSteady(c) ==
  FetchResolves(c, IF cyc[c].provider = "claude" THEN <<usage[1], usage[2]>>
                   ELSE <<usage[3], usage[4]>>)

NextSteady ==
  \/ MonitorStart
  \/ \E c \in Cycles : TimerFires(c)
  \/ \E c \in Cycles : FetchSteady(c)
  \/ \E c \in Cycles : FetchRejects(c)
  \/ \E c \in Cycles : \E o \in [1..cfg.urls -> Outcomes] : AlertSettles(c, o)
  \/ \E c \in Cycles : \E o \in [1..cfg.urls -> Outcomes] : ReportSettles(c, o)

SpecSteady == InitSteady /\ [][NextSteady]_vars

\* An interval monitor whose timer, once armed, goes on firing: setInterval
\* calls runOnce again after every intervalMs.
InitLive ==
  /\ Init
  /\ ~cfg.once

NextLive ==
  \/ MonitorStart
  \/ \E c \in Cycles : TimerFires(c)
  \/ \E c \in Cycles : \E sn \in Snapshots : FetchResolves(c, sn)
  \/ \E c \in Cycles : FetchRejects(c)
  \/ \E c \in Cycles : \E o \in [1..cfg.urls -> Outcomes] : AlertSettles(c, o)
  \/ \E c \in Cycles : \E o \in [1..cfg.urls -> Outcomes] : ReportSettles(c, o)

SpecLive ==
  InitLive /\ [][NextLive]_vars /\ WF_vars(\E c \in Cycles : TimerFires(c))

\* ------------------------------------------------------------ one cycle
\* The utilizations of a --once run: below every tier, in the two middle tiers,
\* in the top tier.
OnceUtils == {15, 45, 65, 82}

\* The alert-state files a --once run may start from: none, or each key of an
\* enabled provider without an entry or with one tier alerted.
OnceFiles ==
  {NoFile} \cup
  {saveAlertState(s) :
     s \in UNION {[{StateKeys[w] : w \in ws} -> {<<20>>, <<80>>}] :
                    ws \in SUBSET Enabled}}

\* monitor --once with one provider that reports `usage`: arg keeps the file the
\* run started from, accepted and failed are the alerts the run sent, lastGood
\* that the run got to saveAlertState and the daily report check.
InitOnce ==
  /\ InitCycles
  /\ cfg.once
  /\ cfg.hasClaude # cfg.hasOpenAI
  /\ file \in OnceFiles
  /\ arg = file
  /\ accepted = {}
  /\ usage \in {u \in [1..4 -> OnceUtils \cup {Null}] :
                  \A w \in 1..4 : w \notin Enabled => u[w] = Null}
  /\ watch = "once"

NextOnce ==
  \/ MonitorStart
  \/ \E c \in Cycles : FetchSteady(c)
  \/ \E c \in Cycles : FetchRejects(c)
  \/ \E c \in Cycles : \E o \in [1..cfg.urls -> Outcomes] : AlertSettles(c, o)
  \/ \E c \in Cycles : \E o \in [1..cfg.urls -> Outcomes] : ReportSettles(c, o)
  \/ Dispose

SpecOnce == InitOnce /\ [][NextOnce]_vars

\* The same run when every awaited call settles: a step that can be taken is
\* taken.
SpecOnceLive == InitOnce /\ [][NextOnce]_vars /\ WF_vars(NextOnce)

\* monitor --once with one provider, started on a file that holds `null`.
InitShape ==
  /\ InitCycles
  /\ cfg.once
  /\ cfg.hasClaude # cfg.hasOpenAI
  /\ file = NullFile
  /\ arg = file
  /\ accepted = {}
  /\ usage \in {u \in [1..4 -> OnceUtils \cup {Null}] :
                  \A w \in 1..4 : w \notin Enabled => u[w] = Null}
  /\ watch = "once"

NextShape ==
  \/ MonitorStart
  \/ \E c \in Cycles : FetchSteady(c)
  \/ \E c \in Cycles : FetchRejects(c)
  \/ \E c \in Cycles : \E o \in [1..cfg.urls -> Outcomes] : ReportSettles(c, o)
  \/ Dispose

SpecShape == InitShape /\ [][NextShape]_vars

\* ------------------------------------------------------------ every tier
\* Snapshots whose first window is below the tiers or in any of the four, and
\* whose second is absent or in the top tier.
TierSnapshots == {<<u, v>> : u \in {15, 25, 45, 65, 85}, v \in {Null, 85}}

\* The files a monitor of one provider starts from: none, or one with tiers of
\* its first window alerted by earlier runs.
TierFiles ==
  {NoFile} \cup
  {saveAlertState([k \in {StateKeys[CHOOSE w \in Enabled : w - 1 \notin Enabled]}
                     |-> l]) : l \in {<<20>>, <<80, 60>>}}

InitTiers ==
  /\ InitMonitor
  /\ cfg.hasClaude # cfg.hasOpenAI
  /\ file \in TierFiles
  /\ accepted = {}
  /\ usage = <<Null, Null, Null, Null>>
  /\ watch = "tiers"

NextTiers ==
  \/ MonitorStart
  \/ \E c \in Cycles : TimerFires(c)
  \/ \E c \in Cycles : \E sn \in TierSnapshots : FetchResolves(c, sn)
  \/ \E c \in Cycles : FetchRejects(c)
  \/ \E c \in Cycles : \E o \in [1..cfg.urls -> Outcomes] : AlertSettles(c, o)
  \/ \E c \in Cycles : \E o \in [1..cfg.urls -> Outcomes] : ReportSettles(c, o)
  \/ Dispose

SpecTiers == InitTiers /\ [][NextTiers]_vars

\* ------------------------------------------------- set-up and interrupt
\* Mutant: the destination check never fails.
noDestination_Never(urls) == FALSE

\* uniqueUrls.length === 0, by the number of urls in uniqueUrls
noDestination(urls) == urls = 0

resetAlertState_Keep(f) == f

\* resetAlertState: unlink the state file if it exists.
resetAlertState(f) == IF f.exists THEN NoFile ELSE f

\* The monitor action from the webhook lists to the destination check,
\* process.exit(1) when there is none, and on to the --reset-state option.
Setup ==
  /\ main = "setup"
  /\ main' = IF noDestination(cfg.urls) THEN "exit1" ELSE "start"
  /\ file' = IF ~noDestination(cfg.urls) /\ cfg.resetState
             THEN resetAlertState(file) ELSE file
  /\ UNCHANGED <<cfg, timer, cyc, lastDailyReportDate, now, usage, watch,
                 started, accepted, delivered, dropped, failed, reports,
                 lastGood, arg, res>>

\* SIGINT arrives. Once the monitor action has armed the timer its handler
\* runs: clearInterval(timer), then the awaited dispose of the clients. Before
\* that (and with --once) no handler is installed and the signal ends the
\* process.
Sigint ==
  /\ main \in {"setup", "start", "firstRun", "interval", "dispose"}
  /\ main' = IF main = "interval" THEN "disposing" ELSE "exited"
  /\ timer' = "none"
  /\ UNCHANGED <<cfg, cyc, file, lastDailyReportDate, now, usage, watch,
                 started, accepted, delivered, dropped, failed, reports,
                 lastGood, arg, res>>

\* The handler's dispose calls have settled: process.exit(0), whatever runOnce
\* invocations are suspended at an await.
Exit ==
  /\ main = "disposing"
  /\ main' = "exited"
  /\ UNCHANGED <<cfg, timer, cyc, file, lastDailyReportDate, now, usage, watch,
                 started, accepted, delivered, dropped, failed, reports,
                 lastGood, arg, res>>

\* The monitor action from its webhook lists on, with from none to NumUrls
\* distinct urls, and with the interrupt signal.
InitInterrupt ==
  /\ cfg \in [once : BOOLEAN, hasClaude : BOOLEAN, hasOpenAI : BOOLEAN,
              urls : 0..NumUrls, resetState : {FALSE}]
  /\ main = "setup"
  /\ timer = "none"
  /\ cyc = [c \in Cycles |-> Idle]
  /\ file = NoFile
  /\ lastDailyReportDate = 0
  /\ now \in [day : {1}, hour : Hours]
  /\ usage = <<Null, Null, Null, Null>>
  /\ watch = "interrupt"
  /\ started = 0
  /\ accepted = {}
  /\ delivered = {}
  /\ dropped = {}
  /\ failed = {}
  /\ reports = NoReports
  /\ lastGood = FALSE
  /\ arg = 0
  /\ res = <<>>

NextInterrupt ==
  \/ Setup
  \/ MonitorStart
  \/ \E c \in Cycles : TimerFires(c)
  \/ \E c \in Cycles : \E sn \in Snapshots : FetchResolves(c, sn)
  \/ \E c \in Cycles : FetchRejects(c)
  \/ \E c \in Cycles : \E o \in [1..cfg.urls -> Outcomes] : AlertSettles(c, o)
  \/ \E c \in Cycles : \E o \in [1..cfg.urls -> Outcomes] : ReportSettles(c, o)
  \/ Sigint
  \/ Exit
  \/ Dispose

SpecInterrupt == InitInterrupt /\ [][NextInterrupt]_vars

\* monitor --once from its set-up on, with or without --reset-state, started on
\* whatever file earlier runs left, a damaged one included.
InitReset ==
  /\ cfg \in [once : {TRUE}, hasClaude : BOOLEAN, hasOpenAI : BOOLEAN,
              urls : {NumUrls}, resetState : BOOLEAN]
  /\ cfg.hasClaude # cfg.hasOpenAI
  /\ main = "setup"
  /\ timer = "none"
  /\ cyc = [c \in Cycles |-> Idle]
  /\ file \in OnceFiles \cup CorruptFiles \cup {NullFile}
  /\ arg = file
  /\ lastDailyReportDate = 0
  /\ now \in [day : {1}, hour : Hours]
  /\ usage \in {u \in [1..4 -> OnceUtils \cup {Null}] :
                  \A w \in 1..4 : w \notin Enabled => u[w] = Null}
  /\ watch = "once"
  /\ started = 0
  /\ accepted = {}
  /\ delivered = {}
  /\ dropped = {}
  /\ failed = {}
  /\ reports = NoReports
  /\ lastGood = FALSE
  /\ res = <<>>

NextReset ==
  \/ Setup
  \/ NextOnce

SpecReset == InitReset /\ [][NextReset]_vars

\* ------------------------------------------- the pure functions on their own
\* The monitor is not running while a pure function is exercised.
NoCycles ==
  /\ cfg = [once |-> TRUE, hasClaude |-> FALSE, hasOpenAI |-> FALSE, urls |-> NumUrls]
  /\ main = "returned"
  /\ timer = "none"
  /\ cyc = [c \in Cycles |-> Idle]
  /\ lastDailyReportDate = 0
  /\ now = [day |-> 1, hour |-> dailyReportHour]
  /\ usage = <<Null, Null, Null, Null>>
  /\ watch = "none"
  /\ started = 0
  /\ accepted = {}
  /\ delivered = {}
  /\ dropped = {}
  /\ failed = {}
  /\ reports = NoReports
  /\ lastGood = FALSE

NoMonitor ==
  /\ NoCycles
  /\ file = NoFile

InitClassify ==
  /\ NoMonitor
  /\ arg \in 0..MaxUtil
  /\ res = <<>>

\* getThresholdForPercentage(arg) is called.
Classify ==
  /\ res = <<>>
  /\ arg \in Int
  /\ res' = <<getThresholdForPercentage(arg)>>
  /\ UNCHANGED <<arg, monitorVars>>

SpecClassify == InitClassify /\ [][Classify]_vars

\* Every destination list of up to MaxHooks urls, by what each destination does.
OutcomeLists == UNION {[1..n -> Outcomes] : n \in 0..MaxHooks}

InitFanout ==
  /\ NoMonitor
  /\ arg \in OutcomeLists
  /\ res = <<>>

\* postToWebhooks(webhookUrls, body) is called and settles.
Post ==
  /\ res = <<>>
  /\ res' = <<postToWebhooks(arg)>>
  /\ UNCHANGED <<arg, monitorVars>>

SpecFanout == InitFanout /\ [][Post]_vars

\* The webhook urls the sources may name.
Urls == {"https://discord/a", "https://discord/b"}

\* What getWebhookUrls(config) may return: any list of up to MaxConfigUrls urls.
ConfigUrls == UNION {[1..n -> Urls] : n \in 0..MaxConfigUrls}

\* webhookUrls after the two pushes: the config's list, then --webhook and
\* DISCORD_WEBHOOK when they are non-empty strings.
webhookUrls(config, option, env) ==
  config \o (IF option # "" THEN <<option>> ELSE <<>>)
         \o (IF env # "" THEN <<env>> ELSE <<>>)

RECURSIVE SetOrder(_, _, _)
\* The elements of a list in the order a Set keeps them: each value at its
\* first insertion.
SetOrder(list, i, kept) ==
  IF i > Len(list) THEN kept
  ELSE SetOrder(list, i + 1,
                IF \E j \in 1..Len(kept) : kept[j] = list[i] THEN kept
                ELSE Append(kept, list[i]))

\* Mutant: the list as it is, without the Set.
uniqueUrls_Keep(list) == list

\* [...new Set(webhookUrls)]
uniqueUrls(list) == SetOrder(list, 1, <<>>)

\* The urls postToWebhooks POSTs a payload to: one fetch per element of the list
\* it is given.
Posts(list) == list

InitUrls ==
  /\ NoMonitor
  /\ arg \in [config : ConfigUrls, option : Urls \cup {""}, env : Urls \cup {""}]
  /\ res = <<>>

\* The monitor action builds uniqueUrls, and a payload is posted to it.
Collect ==
  /\ res = <<>>
  /\ res' = <<Posts(uniqueUrls(webhookUrls(arg.config, arg.option, arg.env)))>>
  /\ UNCHANGED <<arg, monitorVars>>

SpecUrls == InitUrls /\ [][Collect]_vars

\* The tier lists of up to MaxTiers tiers, and the alert states over the state
\* keys with such lists.
TierLists == UNION {[1..n -> {20, 80}] : n \in 0..MaxTiers}

AlertStates ==
  UNION {[{StateKeys[w] : w \in ws} -> TierLists] : ws \in SUBSET (1..4)}

\* The store is absent or broken, and arg is the state about to be saved.
InitStore ==
  /\ NoCycles
  /\ file \in {NoFile} \cup CorruptFiles
  /\ arg \in AlertStates
  /\ res = <<>>

\* saveAlertState(arg) is called.
Save ==
  /\ res = <<>>
  /\ file # saveAlertState(arg)
  /\ file' = saveAlertState(arg)
  /\ UNCHANGED <<arg, res, cfg, main, timer, cyc, lastDailyReportDate, now, usage,
                 watch, started, accepted, delivered, dropped, failed, reports,
                 lastGood>>

\* loadAlertState() is called.
Load ==
  /\ res = <<>>
  /\ res' = <<loadAlertState(file)>>
  /\ UNCHANGED <<arg, monitorVars>>

NextStore == Save \/ Load

SpecStore == InitStore /\ [][NextStore]_vars

\* The hours of the day checkDailyReport is exercised at, and the values of
\* --daily-report-hour it is exercised with.
DueHours == {0, 9, 10}

ConfiguredHours == {0, 9}

\* checkDailyReport is about to run: the local day and hour in Asia/Seoul, the
\* cursor (0 is ""), the configured hour, the build's rendering of midnight.
InitDue ==
  /\ NoMonitor
  /\ arg \in [configured : ConfiguredHours, hour : DueHours, day : 1..MaxDay,
              cursor : 0..MaxDay, midnight : Midnights]
  /\ res = <<>>

\* checkDailyReport decides whether to start a send.
CheckDue ==
  /\ res = <<>>
  /\ res' = <<isReportDue(arg.configured, hourNumeric(arg.hour, arg.midnight),
                          arg.day, arg.cursor)>>
  /\ UNCHANGED <<arg, monitorVars>>

SpecDue == InitDue /\ [][CheckDue]_vars

\* ------------------------------------------ postToWebhooks, step by step
\* Mutant: Promise.all in place of Promise.allSettled, which settles at the
\* first destination that fails.
allSettled_All(status) ==
  \/ \A i \in 1..Len(status) : status[i] # "pending"
  \/ \E i \in 1..Len(status) : status[i] \in {"http_error", "network_error"}

\* Promise.allSettled(...) has settled: every promise of the list has.
allSettled(status) == \A i \in 1..Len(status) : status[i] # "pending"

\* postToWebhooks is about to be called with one url per element of arg, which
\* says what each destination is going to do.
InitPost ==
  /\ NoMonitor
  /\ arg \in OutcomeLists
  /\ res = <<>>

\* The call runs to its await: webhookUrls.map has issued one fetch per url.
PostCalled ==
  /\ res = <<>>
  /\ res' = <<[posts |-> [i \in 1..Len(arg) |-> 1],
               status |-> [i \in 1..Len(arg) |-> "pending"],
               call |-> "pending"]>>
  /\ UNCHANGED <<arg, monitorVars>>

\* Destination i answers or fails, and its promise settles.
DestinationSettles(i) ==
  /\ res # <<>>
  /\ i \in 1..Len(arg)
  /\ res[1].status[i] = "pending"
  /\ res' = <<[res[1] EXCEPT !.status[i] = arg[i]]>>
  /\ UNCHANGED <<arg, monitorVars>>

\* The awaited Promise.allSettled settles and the call resolves or throws, by
\* the failures among the results.
PostSettles ==
  /\ res # <<>>
  /\ res[1].call = "pending"
  /\ allSettled(res[1].status)
  /\ res' = <<[res[1] EXCEPT !.call = postToWebhooks(arg)]>>
  /\ UNCHANGED <<arg, monitorVars>>

NextPost ==
  \/ PostCalled
  \/ \E i \in 1..MaxHooks : DestinationSettles(i)
  \/ PostSettles

SpecPost == InitPost /\ [][NextPost]_vars

\* -------------------------------------------------------------------- C10
\* C10: for every utilization u >= 0 the classifier returns null below 20, 20 in
\* [20,40), 40 in [40,60), 60 in [60,80) and 80 from 80 on (100 and above
\* included), and nothing else.
C10_Classifier ==
  res # <<>> =>
    res[1] = (IF arg < 20 THEN Null
              ELSE IF arg < 40 THEN 20
              ELSE IF arg < 60 THEN 40
              ELSE IF arg < 80 THEN 60
              ELSE 80)

\* A utilization of 100 or more has been classified as tier 80.
C10_Witness == res = <<80>> /\ arg >= 100

\* --------------------------------------------------------------------- C9
\* C9: for every non-empty destination list and every combination of
\* per-destination outcomes, postToWebhooks resolves iff at least one
\* destination returned 2xx and rejects iff every destination failed.
C9_FanoutSuccess ==
  (res # <<>> /\ Len(arg) > 0) =>
    /\ res[1] \in {"resolved", "rejected"}
    /\ res[1] = "resolved" <=> \E i \in 1..Len(arg) : arg[i] = "ok"
    /\ res[1] = "rejected" <=> \A i \in 1..Len(arg) : arg[i] # "ok"

\* Three destinations, one accepting and two failing in both ways: resolved.
C9_Witness ==
  /\ res = <<"resolved">>
  /\ Len(arg) = 3
  /\ arg[1] = "http_error" /\ arg[2] = "ok" /\ arg[3] = "network_error"

\* ---------------------------------------------------------------- helpers
\* The tiers the alert-state file holds for a key.
Stored(key) == Alerted(loadAlertState(file), key)

\* Window i of the provider invocation c is at has a quota in some tier.
Tiered(c, i) ==
  /\ cyc[c].snap[i] # Null
  /\ getThresholdForPercentage(cyc[c].snap[i]) # Null

\* The (key, tier) alert invocation c is sending.
Sending(c) ==
  <<StateKey(cyc[c].provider, cyc[c].idx),
    getThresholdForPercentage(cyc[c].snap[cyc[c].idx])>>

\* Every (key, tier) of an alert state has been accepted by some webhook.
AllAccepted(state) ==
  \A k \in DOMAIN state : \A i \in 1..Len(state[k]) : <<k, state[k][i]>> \in accepted

\* --------------------------------------------------------------------- C1
\* C1: whenever a cycle observes a window below 20, the tier set stored for the
\* window's key is empty after the cycle, and the cycle sends no alert for that
\* window. Stated of a cycle's step that goes from an awaited alert to the
\* save: the file it writes holds no tier for a window it saw below 20.
C1_HysteresisReset ==
  [][\A c \in Cycles :
       /\ (cyc[c].pc = "alert" => cyc[c].snap[cyc[c].idx] >= 20)
       /\ (cyc[c].pc = "alert" /\ cyc'[c].pc \in {"idle", "report"} /\ file' # file)
            => \A i \in 1..2 :
                 (cyc[c].snap[i] # Null /\ cyc[c].snap[i] < 20)
                   => Alerted(loadAlertState(file'), StateKey(cyc[c].provider, i)) = <<>>
    ]_vars

\* --------------------------------------------------------------------- C2
\* C2: after a cycle has seen a window below 20, a later cycle that sees the
\* window in a tier sends that tier's alert again. Stated of a cycle that has
\* gone past its provider's first window to the second one's alert: if the first
\* window is in a tier, its key is not among those that had dropped below 20,
\* with no alert accepted since, when the cycle began.
C2_ReClimb ==
  \A c \in Cycles :
    (cyc[c].pc = "alert" /\ cyc[c].idx = 2 /\ Tiered(c, 1))
      => StateKey(cyc[c].provider, 1) \notin cyc[c].owed

\* --------------------------------------------------------------------- C3
\* C3: once some webhook has accepted the alert for (key, tier), no later cycle
\* sends an alert for the same (key, tier) until the key is reset.
C3_NoDuplicateAlert ==
  \A c \in Cycles : cyc[c].pc = "alert" => Sending(c) \notin delivered

\* --------------------------------------------------------------------- C5
\* C5: at no point are two runOnce cycles in progress at the same time.
C5_NoOverlap == Cardinality(InFlight) <= 1

\* --------------------------------------------------------------------- C6
\* C6: a tier is in the persisted state, or in the state a cycle works on, only
\* after some destination accepted its alert, so an alert that failed on every
\* destination adds nothing; and a cycle goes past a window in a tier only with
\* that tier in its state, so while the tier is absent the alert is sent again.
C6_FailedAlertNotRecorded ==
  /\ AllAccepted(loadAlertState(file))
  /\ \A c \in InFlight :
       /\ AllAccepted(cyc[c].state)
       /\ cyc[c].pc = "alert" =>
            ~Includes(Alerted(cyc[c].state, Sending(c)[1]), Sending(c)[2])
       /\ (cyc[c].pc = "alert" /\ cyc[c].idx = 2 /\ Tiered(c, 1)) =>
            Includes(Alerted(cyc[c].state, StateKey(cyc[c].provider, 1)),
                     getThresholdForPercentage(cyc[c].snap[1]))

\* A cycle is sending again an alert whose last send failed on every
\* destination, the tier being absent from the file.
C6_Witness ==
  \E c \in Cycles :
    /\ cyc[c].pc = "alert"
    /\ Sending(c) \in failed
    /\ Sending(c) \notin accepted
    /\ ~Includes(Stored(Sending(c)[1]), Sending(c)[2])

C8_OneReportPerDay == \A d \in 1..MaxDay : reports[d].starts <= 1

\* A report send is still in flight while another cycle's check has landed in
\* the report hour of the same day.
C8_Witness ==
  \E c \in Cycles :
    /\ cyc[c].pc = "report"
    /\ reports[cyc[c].kstDate].checks >= 2
    /\ reports[cyc[c].kstDate].starts = 1

\* --------------------------------------------------------------------- C4
\* C4: if a cycle completed with every alert delivered and the state saved, the
\* next cycle, seeing the same utilization for every window, sends no alert and
\* leaves the alert-state file as it is.
C4_Idempotent ==
  [][\A c \in Cycles :
       cyc[c].basis => (cyc'[c].pc # "alert" /\ file' = file)]_vars

\* Such a second cycle has gone past the Claude windows, one of them in a tier
\* that the file records, and is fetching the OpenAI quota.
C4_Witness ==
  \E c \in Cycles :
    /\ cyc[c].basis
    /\ cyc[c].pc = "fetch" /\ cyc[c].provider = "openai"
    /\ usage[1] # Null /\ getThresholdForPercentage(usage[1]) # Null
    /\ Includes(Stored(StateKeys[1]), getThresholdForPercentage(usage[1]))
\* -------------------------------------------------------------------- C11
\* Invocation c of runOnce ends in its catch: its fetchQuota threw, or the alert
\* or report it awaited failed on every destination.
CycleError(c) ==
  \/ FetchRejects(c)
  \/ \E o \in [1..cfg.urls -> Outcomes] :
       /\ postToWebhooks(o) = "rejected"
       /\ (AlertSettles(c, o) \/ ReportSettles(c, o))

\* C11: in the interval-driven monitor a cycle that ends in an error leaves the
\* process running with its timer armed, and whenever the timer is armed after
\* n cycles were started, a further cycle is started.
C11_ErrorNotFatal ==
  /\ [][(\E c \in Cycles : CycleError(c))
          => (main' = "interval" /\ timer' = "armed")]_vars
  /\ \A n \in 1..(MaxCycles - 1) :
       (main = "interval" /\ timer = "armed" /\ started = n) ~> (started > n)

\* The first cycle's alert failed on every destination and was never accepted;
\* the second cycle is running, alone.
C11_Witness ==
  /\ failed # {}
  /\ accepted = {}
  /\ started = 2
  /\ \E c \in Cycles : InFlight = {c} /\ cyc[c].pc = "fetch"
  /\ timer = "armed"
\* -------------------------------------------------------------------- C12
\* C12: a cycle in flight when the interrupt signal arrives runs to completion
\* before the process exits: the handler's process.exit(0) is not reached with
\* a runOnce invocation still suspended at an await.
C12_CooperativeCancel == [][Exit => InFlight = {}]_vars

\* -------------------------------------------------------------------- C13
\* C13: with no destination the monitor exits with a failure status before any
\* quota fetch: no cycle is ever started, and no alert or report is ever being
\* sent to an empty destination list.
C13_NoDestinationFatal ==
  /\ cfg.urls = 0 => /\ main \in {"setup", "exit1", "exited"}
                     /\ started = 0
                     /\ InFlight = {}
  /\ \A c \in Cycles : cyc[c].pc \in {"alert", "report"} => cfg.urls > 0

\* The monitor has exited with status 1 for want of a destination.
C13_Witness == main = "exit1" /\ cfg.urls = 0 /\ started = 0
\* -------------------------------------------------------------------- C14
\* The urls some source supplies.
Supplied ==
  {arg.config[i] : i \in 1..Len(arg.config)} \cup ({arg.option, arg.env} \ {""})

\* C14: a payload is POSTed at most once to each distinct url, and to every url
\* some source supplies, however many of the config file, --webhook and
\* DISCORD_WEBHOOK name it.
C14_Deduplicated ==
  res # <<>> =>
    /\ \A i, j \in 1..Len(res[1]) : res[1][i] = res[1][j] => i = j
    /\ {res[1][i] : i \in 1..Len(res[1])} = Supplied

\* The three sources name the same url, which gets one POST.
C14_Witness ==
  /\ res # <<>>
  /\ Len(res[1]) = 1
  /\ Len(arg.config) >= 1 /\ arg.config[1] = arg.option /\ arg.option = arg.env
\* -------------------------------------------------------------------- C15
\* C15: when the alert-state file is absent or its text cannot be parsed,
\* loadAlertState returns the empty mapping, and a runOnce started then goes on
\* as from the empty state (here, with no client, to saving it).
C15_LoadNeverFails ==
  (~file.exists \/ ~Parsable(file.text)) =>
    /\ res # <<>> => res[1] = EmptyState
    /\ Begin(now).file = saveAlertState(EmptyState)

\* The empty mapping was loaded from a file cut short after a member.
C15_Witness ==
  /\ res = <<EmptyState>>
  /\ file.exists
  /\ ~Parsable(file.text)
  /\ \E m \in file.text : Len(m) = 2

Prior(key) == Alerted(loadAlertState(arg), key)

\* The alerts the run has sent: accepted somewhere, or failed everywhere.
Sent == accepted \cup failed

\* C16: a window below 20 whose key had no entry gets none: not in the state
\* the cycle works on, not in the file, and no alert is sent for it. With 5-hour
\* at 82, 7-day at 15 and no file, a completed run that saved has sent exactly
\* the (5-hour, 80) alert and saved an entry for 5-hour only.
C16_NoEntryBelowLowestTier ==
  /\ \A w \in 1..4 :
       (usage[w] # Null /\ usage[w] < 20
          /\ StateKeys[w] \notin DOMAIN loadAlertState(arg))
       => /\ StateKeys[w] \notin DOMAIN loadAlertState(file)
          /\ \A c \in Cycles : StateKeys[w] \notin DOMAIN cyc[c].state
          /\ \A p \in Sent : p[1] # StateKeys[w]
  /\ (usage[1] = 82 /\ usage[2] = 15 /\ arg = NoFile /\ main = "returned"
        /\ file.exists)
       => /\ Sent = {<<StateKeys[1], 80>>}
          /\ failed = {}
          /\ DOMAIN loadAlertState(file) = {StateKeys[1]}
          /\ Stored(StateKeys[1]) = <<80>>

\* That run, completed.
C16_Witness ==
  /\ usage[1] = 82 /\ usage[2] = 15 /\ arg = NoFile
  /\ main = "returned"
  /\ loadAlertState(file) = [k \in {StateKeys[1]} |-> <<80>>]

\* -------------------------------------------------------------------- C17
\* C17: every alert a cycle sends is for the tier its window's utilization is
\* in and that the stored list lacked, at most one per window, and the list
\* saved for a key is the one loaded, with that tier appended if its alert was
\* accepted: no tier in between is alerted or recorded.
C17_OnlyCurrentTier ==
  /\ \A p \in Sent :
       \E w \in Enabled :
         /\ StateKeys[w] = p[1]
         /\ usage[w] # Null
         /\ p[2] = getThresholdForPercentage(usage[w])
         /\ \A i \in 1..Len(Prior(p[1])) : Prior(p[1])[i] # p[2]
  /\ \A c \in InFlight : cyc[c].alertsSent = Cardinality(accepted)
  /\ \A w \in 1..4 :
       Stored(StateKeys[w]) =
         IF file # arg /\ \E p \in accepted : p[1] = StateKeys[w]
         THEN Append(Prior(StateKeys[w]), getThresholdForPercentage(usage[w]))
         ELSE Prior(StateKeys[w])

\* A window recorded at tier 20 was found at 82: the run has alerted 80 only
\* and saved [20, 80].
C17_Witness ==
  \E w \in 1..4 :
    /\ Prior(StateKeys[w]) = <<20>>
    /\ usage[w] = 82
    /\ main = "returned"
    /\ Stored(StateKeys[w]) = <<20, 80>>
    /\ \A p \in Sent : p[1] = StateKeys[w] => p[2] = 80

\* -------------------------------------------------------------------- C20
\* C20: a cycle that obtained a quota snapshot evaluates the daily-report check
\* whatever its alerts did: a --once run that sent an alert (so had a snapshot) has
\* got, when it returns, to saveAlertState and the check that follows it.
C20_ReportCheckedEveryCycle ==
  (main = "returned" /\ Sent # {}) => lastGood
\* -------------------------------------------------------------------- C18
\* C18: a cycle that reaches the daily-report check starts a send if and only if
\* the current hour in the reporting timezone equals the configured hour and the
\* current date there differs from the cursor.
C18_ReportDue ==
  res # <<>> => (res[1] <=> (arg.hour = arg.configured /\ arg.day # arg.cursor))
\* -------------------------------------------------------------------- C21
\* C21: postToWebhooks issues exactly one POST to each destination of its list;
\* a destination's failure leaves every other destination's POST to settle with
\* its own outcome; and the call settles only after every destination has.
C21_IndependentFanout ==
  res # <<>> =>
    /\ \A i \in 1..Len(arg) :
         /\ res[1].posts[i] = 1
         /\ res[1].status[i] \in {"pending", arg[i]}
    /\ res[1].call # "pending" =>
         \A i \in 1..Len(arg) : res[1].status[i] = arg[i]

\* The first destination failed, a later one then accepted its POST, and the
\* call has resolved.
C21_Witness ==
  /\ res # <<>>
  /\ Len(arg) >= 3
  /\ arg[1] = "network_error" /\ arg[2] = "http_error" /\ arg[3] = "ok"
  /\ res[1].call = "resolved"
\* -------------------------------------------------------------------- C22
\* C22: on a state file that parses but is no mapping from keys to tier lists
\* the cycle goes on as from the empty state, with nothing thrown to its catch:
\* when the provider's quota comes in with a window in a tier, the cycle sends
\* that window's alert, as it does from the empty state.
C22_CorruptStateAsEmpty ==
  [][\A c \in Cycles :
       (FetchSteady(c)
          /\ arg \in {NoFile, NullFile}
          /\ \E w \in Enabled :
               usage[w] # Null /\ getThresholdForPercentage(usage[w]) # Null)
       => cyc'[c].pc = "alert"]_vars
\* -------------------------------------------------------------------- C23
\* C23: --reset-state deletes the state file before the first cycle loads it:
\* once the set-up has passed the option the next load gives the empty state,
\* an absent file stays absent, and the first cycle starts from the empty state
\* whatever the file held.
C23_ManualReset ==
  [][/\ (Setup /\ cfg.resetState /\ main' = "start")
          => /\ loadAlertState(file') = EmptyState
             /\ (~file.exists => file' = file)
     /\ (MonitorStart /\ cfg.resetState)
          => \A c \in Cycles :
               cyc'[c].pc = "fetch" => cyc'[c].state = EmptyState]_vars

\* A run with --reset-state on a file that held a sent tier has sent that tier's
\* alert again.
C23_Witness ==
  /\ cfg.resetState
  /\ arg.exists
  /\ \E p \in accepted : Includes(Prior(p[1]), p[2])
\* ------------------------------------------------------- the config command
\* The webhooks Set of the config action: the stored list, the legacy single
\* webhook, --webhook and --webhook-add in insertion order, then without
\* --webhook-remove.
webhooks(existing, options) ==
  LET added == existing.discordWebhooks
                 \o (IF existing.discordWebhook # ""
                     THEN <<existing.discordWebhook>> ELSE <<>>)
                 \o (IF options.webhook # "" THEN <<options.webhook>> ELSE <<>>)
                 \o (IF options.webhookAdd # ""
                     THEN <<options.webhookAdd>> ELSE <<>>)
      kept(url) == options.webhookRemove = "" \/ url # options.webhookRemove
  IN  SelectSeq(SetOrder(added, 1, <<>>), kept)

\* The config the action saves, by its webhook fields: the spread of existing,
\* with discordWebhooks replaced only when the new array is not empty.
savedConfig(existing, options) ==
  LET webhookArray == webhooks(existing, options)
  IN  [discordWebhooks |-> IF Len(webhookArray) > 0 THEN webhookArray
                           ELSE existing.discordWebhooks,
       discordWebhook |-> existing.discordWebhook]

\* The urls a config names as webhooks, in either field.
Listed(config) ==
  {config.discordWebhooks[i] : i \in 1..Len(config.discordWebhooks)}
    \cup (IF config.discordWebhook # "" THEN {config.discordWebhook} ELSE {})

InitConfig ==
  /\ NoMonitor
  /\ arg \in [existing : [discordWebhooks : ConfigUrls,
                          discordWebhook : Urls \cup {""}],
              options : [webhook : Urls \cup {""}, webhookAdd : Urls \cup {""},
                         webhookRemove : Urls \cup {""}]]
  /\ res = <<>>

\* config with the webhook options runs to saveConfig(config).
Configure ==
  /\ res = <<>>
  /\ res' = <<savedConfig(arg.existing, arg.options)>>
  /\ UNCHANGED <<arg, monitorVars>>

SpecConfig == InitConfig /\ [][Configure]_vars

\* -------------------------------------------------------------------- C24
\* C24: after config --webhook-remove u (and no option adding u) the saved
\* configuration does not name u as a webhook, in the list or in the legacy
\* field.
C24_RemoveTakesEffect ==
  (/\ res # <<>>
   /\ arg.options.webhookRemove # ""
   /\ arg.options.webhook # arg.options.webhookRemove
   /\ arg.options.webhookAdd # arg.options.webhookRemove)
  => arg.options.webhookRemove \notin Listed(res[1])
\* -------------------------------------------------------------------- C25
\* C25: a cycle that fails before saveAlertState (its fetchQuota rejects, or an
\* alert fails on every destination) does not write the state file and goes
\* straight to its end, with no further window or provider looked at and no
\* further alert sent; and no step that keeps the cycle before its save writes
\* the file.
C25_FailedCycleNoWrite ==
  [][\A c \in Cycles :
       /\ (\/ FetchRejects(c)
           \/ \E o \in [1..cfg.urls -> Outcomes] :
                postToWebhooks(o) = "rejected" /\ AlertSettles(c, o))
            => /\ file' = file
               /\ cyc'[c] = Idle
               /\ accepted' = accepted
               /\ \A x \in Cycles \ {c} : cyc'[x] = cyc[x]
       /\ (/\ cyc[c].pc \in {"fetch", "alert"}
           /\ cyc'[c].pc \in {"fetch", "alert"}
           /\ cyc'[c] # cyc[c])
            => file' = file]_vars

\* A cycle got one alert accepted and failed at the next: all cycles are over,
\* and the accepted tier is not in the file.
C25_Witness ==
  /\ InFlight = {}
  /\ failed # {}
  /\ \E p \in accepted : ~Includes(Stored(p[1]), p[2])
\* -------------------------------------------------------------------- C26
\* C26: an alert is sent for a window exactly when its utilization is in a tier
\* and that tier is not in the list stored for the window's key, whatever the
\* list says about where utilization was before: a run that looked at all its
\* windows has sent exactly those (key, tier) alerts, and an alert being sent
\* is always such a one. With [80] stored and utilization 65 the run sends the
\* 60 alert.
C26_DirectionBlind ==
  /\ (main = "returned" /\ lastGood)
       => \A w \in 1..4 : \A t \in {20, 40, 60, 80} :
            <<StateKeys[w], t>> \in Sent
              <=> /\ usage[w] # Null
                  /\ getThresholdForPercentage(usage[w]) = t
                  /\ \A i \in 1..Len(Prior(StateKeys[w])) :
                       Prior(StateKeys[w])[i] # t
  /\ \A c \in Cycles :
       cyc[c].pc = "alert"
         => /\ Sending(c)[2] # Null
            /\ \A i \in 1..Len(Prior(Sending(c)[1])) :
                 Prior(Sending(c)[1])[i] # Sending(c)[2]

\* [80] was stored, utilization is 65: the run has sent the 60 alert and stored
\* the tier after the 80.
C26_Witness ==
  \E w \in 1..4 :
    /\ Prior(StateKeys[w]) = <<80>>
    /\ usage[w] = 65
    /\ main = "returned"
    /\ lastGood
    /\ <<StateKeys[w], 60>> \in accepted
    /\ Stored(StateKeys[w]) = <<80, 60>>
\* -------------------------------------------------------------------- C27
\* C27: from an empty or well-formed state file on, every tier list the monitor
\* holds (in the file and in the state a cycle works on) has only values from
\* {20, 40, 60, 80}, none of them twice, and so at most four elements.
C27_WellFormedState ==
  \A state \in {loadAlertState(file)} \cup {cyc[c].state : c \in InFlight} :
    \A k \in DOMAIN state :
      /\ \A i \in 1..Len(state[k]) : state[k][i] \in {20, 40, 60, 80}
      /\ \A i, j \in 1..Len(state[k]) : i # j => state[k][i] # state[k][j]
      /\ Len(state[k]) <= 4

\* A key's stored list holds all four tiers.
C27_Witness ==
  \E k \in DOMAIN loadAlertState(file) : Len(Stored(k)) = 4
\* -------------------------------------------------------------------- C28
\* The entry of key k is the same in two alert states: absent in both, or the
\* same list.
SameEntry(old, new, k) ==
  /\ k \in DOMAIN old <=> k \in DOMAIN new
  /\ k \in DOMAIN old => old[k] = new[k]

\* C28: a step of a cycle changes, in the state the cycle works on (and in the
\* file it then saves), only entries of windows the step processed, each by its
\* own window's utilization: the keys of the other provider and of the windows
\* before the alerted one are as they were, the alerted window's key gets its
\* tier appended, and a window after it is at most reset to [] when its own
\* utilization is below 20.
C28_PerKeyIsolation ==
  [][\A c \in Cycles :
       (/\ cyc[c].pc \in {"fetch", "alert"}
        /\ cyc'[c] # cyc[c]
        /\ cyc'[c].pc \in {"fetch", "alert"} \/ file' # file)
       => LET old == cyc[c].state
              new == IF cyc'[c].pc \in {"fetch", "alert"} THEN cyc'[c].state
                     ELSE loadAlertState(file')
              idx == cyc[c].idx
              snap == cyc[c].snap
          IN  \A w \in 1..4 :
                LET k == StateKeys[w]
                    i == IF w <= 2 THEN w ELSE w - 2
                IN  IF k # StateKey(cyc[c].provider, i) \/ cyc[c].pc = "fetch"
                       \/ i < idx
                    THEN SameEntry(old, new, k)
                    ELSE IF i = idx
                    THEN /\ k \in DOMAIN new
                         /\ new[k] = Append(Alerted(old, k),
                                            getThresholdForPercentage(snap[idx]))
                    ELSE \/ SameEntry(old, new, k)
                         \/ /\ snap[i] # Null /\ snap[i] < 20
                            /\ k \in DOMAIN new /\ new[k] = <<>>]_vars

\* A cycle is sending an alert for an OpenAI window with the Claude 5-hour
\* window's 80 in its state, and a Claude alert was accepted before.
C28_Witness ==
  \E c \in Cycles :
    /\ cyc[c].pc = "alert"
    /\ cyc[c].provider = "openai"
    /\ Alerted(cyc[c].state, StateKeys[1]) = <<80>>
    /\ <<StateKeys[1], 80>> \in accepted
\* --------------------------------------------- OpenAIQuotaClient.fetchQuota
\* Texts are sequences of characters, so that String.includes is computed.
DigitChars == <<"0", "1", "2", "3", "4", "5", "6", "7", "8", "9">>

\* `${n}` for a number of three digits
Decimal(n) ==
  <<DigitChars[(n \div 100) + 1], DigitChars[((n \div 10) % 10) + 1],
    DigitChars[(n % 10) + 1]>>

\* message.includes("401")
includes401(message) ==
  \E i \in 1..(Len(message) - 2) :
    message[i] = "4" /\ message[i + 1] = "0" /\ message[i + 2] = "1"

\* error instanceof Error && error.message.includes("401"), for the Errors
\* fetchUsage throws
isAuthError(message) == includes401(message)

UsageFailedPrefix ==
  <<"O", "p", "e", "n", "A", "I", " ", "u", "s", "a", "g", "e", " ", "A",
    "P", "I", " ", "f", "a", "i", "l", "e", "d", ":", " ">>

TokenFailedPrefix ==
  <<"O", "p", "e", "n", "A", "I", " ", "t", "o", "k", "e", "n", " ", "r",
    "e", "f", "r", "e", "s", "h", " ", "f", "a", "i", "l", "e", "d">>

JsonErrorPrefix ==
  <<"U", "n", "e", "x", "p", "e", "c", "t", "e", "d", " ", "t", "o", "k",
    "e", "n", " ", "<", " ", "i", "n", " ", "J", "S", "O", "N", " ", "a",
    "t", " ", "p", "o", "s", "i", "t", "i", "o", "n", " ">>

FetchFailed ==
  <<"f", "e", "t", "c", "h", " ", "f", "a", "i", "l", "e", "d">>

\* The reason phrases a server sends: none (HTTP/2), or a phrase.
StatusTexts ==
  {<<>>,
   <<"U", "n", "a", "u", "t", "h", "o", "r", "i", "z", "e", "d">>}

\* What the usage endpoint may do with a request: answer 200 with the usage
\* JSON, answer with a status that is not ok, not be reached, or answer 200 with
\* a body that is JSON up to some position only.
UsageAnswers ==
  {[kind |-> "ok", status |-> 200, statusText |-> <<>>, position |-> 0]}
    \cup [kind : {"status"}, status : {401, 403, 500}, statusText : StatusTexts,
          position : {0}]
    \cup {[kind |-> "network", status |-> 0, statusText |-> <<>>, position |-> 0]}
    \cup [kind : {"json"}, status : {200}, statusText : {<<>>},
          position : {123, 401}]

RefreshAnswers == {"ok", "failed"}

\* The message of the Error fetchUsage throws on an answer: its own for a
\* status that is not ok, fetch's for a network failure, and JSON.parse's
\* SyntaxError ("Unexpected token < in JSON at position N") from response.json().
usageError(answer) ==
  IF answer.kind = "status"
  THEN UsageFailedPrefix \o Decimal(answer.status) \o <<" ">> \o answer.statusText
  ELSE IF answer.kind = "network" THEN FetchFailed
  ELSE JsonErrorPrefix \o Decimal(answer.position)

\* fetchQuota is about to be called; arg says what the first usage request, the
\* token refresh and the second usage request are going to get.
InitFetch ==
  /\ NoMonitor
  /\ arg \in [usage1 : UsageAnswers, refresh : RefreshAnswers,
              usage2 : UsageAnswers]
  /\ res = <<>>

\* The call runs to its first await: fetchUsage has issued its request.
FetchQuotaCalled ==
  /\ res = <<>>
  /\ res' = <<[pc |-> "usage1", usageRequests |-> 1, refreshes |-> 0,
               error |-> <<>>]>>
  /\ UNCHANGED <<arg, monitorVars>>

\* An awaited fetchUsage settles: data on an ok answer; from the first request
\* an error goes to the catch, which calls refreshAccessToken or rethrows; an
\* error of the second request leaves fetchQuota.
UsageSettles ==
  /\ res # <<>>
  /\ res[1].pc \in {"usage1", "usage2"}
  /\ LET answer == IF res[1].pc = "usage1" THEN arg.usage1 ELSE arg.usage2
     IN  res' = <<IF answer.kind = "ok"
                  THEN [res[1] EXCEPT !.pc = "resolved"]
                  ELSE IF res[1].pc = "usage1" /\ isAuthError(usageError(answer))
                  THEN [res[1] EXCEPT !.pc = "refresh", !.refreshes = @ + 1]
                  ELSE [res[1] EXCEPT !.pc = "rejected",
                                      !.error = usageError(answer)]>>
  /\ UNCHANGED <<arg, monitorVars>>

\* The awaited refreshAccessToken settles: on success the second fetchUsage is
\* called, and its error leaves fetchQuota.
RefreshSettles ==
  /\ res # <<>>
  /\ res[1].pc = "refresh"
  /\ res' = <<IF arg.refresh = "ok"
              THEN [res[1] EXCEPT !.pc = "usage2", !.usageRequests = @ + 1]
              ELSE [res[1] EXCEPT !.pc = "rejected",
                                  !.error = TokenFailedPrefix]>>
  /\ UNCHANGED <<arg, monitorVars>>

NextFetch ==
  \/ FetchQuotaCalled
  \/ UsageSettles
  \/ RefreshSettles

SpecFetch == InitFetch /\ [][NextFetch]_vars

\* -------------------------------------------------------------------- C29
\* C29: in one fetchQuota call the token is refreshed at most once and the
\* usage endpoint requested at most twice; a refresh is made only when the
\* first usage request was answered with status 401, and any other failure of
\* it leaves fetchQuota with that error; a failed refresh or a failed second
\* usage request leaves fetchQuota with its error and no further request.
C29_Bounded401Retry ==
  res # <<>> =>
    /\ res[1].refreshes <= 1
    /\ res[1].usageRequests <= 2
    /\ res[1].refreshes = 1
         => arg.usage1.kind = "status" /\ arg.usage1.status = 401
    /\ (res[1].pc \in {"resolved", "rejected"} /\ arg.usage1.kind # "ok"
          /\ ~(arg.usage1.kind = "status" /\ arg.usage1.status = 401))
         => /\ res[1].pc = "rejected"
            /\ res[1].error = usageError(arg.usage1)
            /\ res[1].usageRequests = 1
    /\ (res[1].pc \in {"resolved", "rejected"} /\ res[1].refreshes = 1
          /\ arg.refresh = "failed")
         => /\ res[1].pc = "rejected"
            /\ res[1].error = TokenFailedPrefix
            /\ res[1].usageRequests = 1
    /\ (res[1].pc \in {"resolved", "rejected"} /\ res[1].usageRequests = 2
          /\ arg.usage2.kind # "ok")
         => /\ res[1].pc = "rejected"
            /\ res[1].error = usageError(arg.usage2)
\* -------------------------------------------------------------------- C30
\* C30: monitor --once, when every awaited call settles, starts exactly one
\* cycle, never arms a timer, and returns; it returns from the dispose of its
\* clients, with the cycle over, whether the cycle got to its end or failed at
\* a fetch or at a delivery.
C30_OnceTerminates ==
  /\ [](started <= 1 /\ timer = "none")
  /\ <>(main = "returned")
  /\ [][(main' = "returned" /\ main # "returned")
          => (main = "dispose" /\ InFlight = {} /\ started = 1)]_vars

\* The run has returned after a cycle whose alert failed on every destination.
C30_Witness ==
  /\ main = "returned"
  /\ failed # {}
  /\ ~lastGood
  /\ started = 1

====
